---- MODULE Spec2Model ----
(***************************************************************************)
(* A model of peroxide's value arena (arena.rs) and of its tree-to-bytecode *)
(* compiler (compile.rs).  Buffer positions are 0-based as in the source;  *)
(* At/SetAt translate them to TLA+'s 1-based sequences.                    *)
(***************************************************************************)
EXTENDS Integers, Sequences, FiniteSets, TLC

\* Number of top-level compile calls of one session.
MaxUnits == 2
\* A session goes on while its output buffer holds at most this many
\* instructions.
MaxBuf == 2
\* Number of top-level forms of one read-eval-print session.
MaxSession == 4
\* Number of slots the arena may grow to.
MaxSlots == 4

VARIABLES
  values,      \* Arena.values: a sequence of Absent / Present(v)
  prev_values, \* Arena.values before the last arena operation
  arena_op,    \* the last arena operation and what it returned
  to,          \* the caller's output buffer (Vec<Instruction>)
  genv,        \* the global frame of the environment: <<[name, initialized]>>
  before,      \* the output buffer as it was before the last compile call
  units,       \* the compile calls made so far, with their arguments and results
  log          \* the calls of compile made by the last compile call, pre-order

vars == <<values, prev_values, arena_op, to, genv, before, units, log>>
arena_vars == <<values, prev_values, arena_op>>
compiler_vars == <<to, genv, before, units, log>>

--------------------------------------------------------------------------
\* arena.rs

Absent == [tag |-> "Absent"]
Present(v) == [tag |-> "Present", v |-> v]
None == [some |-> FALSE]
Some(n) == [some |-> TRUE, n |-> n]

\* Values interned in the arena.
Values == {"EmptyList", "Real"}

\* The 0-based indices of the Absent slots.
AbsentIndices(vals) == {i \in 0 .. Len(vals) - 1 : vals[i + 1] = Absent}

Min(S) == CHOOSE m \in S : \A n \in S : m <= n
Max(S) == CHOOSE m \in S : \A n \in S : m >= n

\* Variant: the last Absent slot instead of the first.
find_space_last(vals) ==
  IF AbsentIndices(vals) = {} THEN None ELSE Some(Max(AbsentIndices(vals)))

\* Arena::find_space: the first Absent slot, or None.
find_space(vals) ==
  IF AbsentIndices(vals) = {} THEN None ELSE Some(Min(AbsentIndices(vals)))

\* Arena::intern: the new slots and the returned index.
intern(vals, v) ==
  LET space == find_space(vals) IN
  IF space.some
    THEN [values |-> [vals EXCEPT ![space.n + 1] = Present(v)], ret |-> space.n]
    ELSE LET pushed == Append(vals, Present(v)) IN
         [values |-> pushed, ret |-> Len(pushed) - 1]

\* Arena::value_ref: the value at a slot; "panic" for an Absent slot.
value_ref(vals, at) ==
  IF vals[at + 1] = Absent THEN "panic" ELSE vals[at + 1].v

--------------------------------------------------------------------------
\* The syntax tree (ast::SyntaxElement)

NoElse == [type |-> "None"]
NoRest == ""

Quote(q) == [type |-> "Quote", quoted |-> q]
If(c, t, f) == [type |-> "If", cond |-> c, t |-> t, f |-> f]
Begin(es) == [type |-> "Begin", expressions |-> es]
SetBang(x, e) == [type |-> "Set", variable |-> x, value |-> e]
Reference(x) == [type |-> "Reference", variable |-> x]
Lambda(vs, rest, es) ==
  [type |-> "Lambda", formals |-> [values |-> vs, rest |-> rest], expressions |-> es]
Define(x, e) == [type |-> "Define", variable |-> x, value |-> e]
Application(f, as) == [type |-> "Application", function |-> f, args |-> as]

--------------------------------------------------------------------------
\* The instructions (vm::Instruction)

NoOp == [op |-> "NoOp"]
Constant(q) == [op |-> "Constant", q |-> q]
Jump(n) == [op |-> "Jump", n |-> n]
JumpFalse(n) == [op |-> "JumpFalse", n |-> n]
PushValue == [op |-> "PushValue"]
CreateClosure(n) == [op |-> "CreateClosure", n |-> n]
CheckArity(arity, dotted) == [op |-> "CheckArity", arity |-> arity, dotted |-> dotted]
PackFrame(arity) == [op |-> "PackFrame", arity |-> arity]
ExtendEnv == [op |-> "ExtendEnv"]
ExtendFrame == [op |-> "ExtendFrame"]
Return == [op |-> "Return"]
CreateFrame(n) == [op |-> "CreateFrame", n |-> n]
PopFunction == [op |-> "PopFunction"]
PreserveEnv == [op |-> "PreserveEnv"]
RestoreEnv == [op |-> "RestoreEnv"]
FunctionInvoke(tail) == [op |-> "FunctionInvoke", tail |-> tail]
GlobalArgumentGet(index) == [op |-> "GlobalArgumentGet", index |-> index]
CheckedGlobalArgumentGet(index) == [op |-> "CheckedGlobalArgumentGet", index |-> index]
LocalArgumentGet(depth, index) ==
  [op |-> "LocalArgumentGet", depth |-> depth, index |-> index]
CheckedLocalArgumentGet(depth, index) ==
  [op |-> "CheckedLocalArgumentGet", depth |-> depth, index |-> index]
GlobalArgumentSet(index) == [op |-> "GlobalArgumentSet", index |-> index]
DeepArgumentSet(depth, index) ==
  [op |-> "DeepArgumentSet", depth |-> depth, index |-> index]

\* to[i] and to[i] = instr, with the source's 0-based positions.
At(buf, i) == buf[i + 1]
SetAt(buf, i, instr) == [buf EXCEPT ![i + 1] = instr]

--------------------------------------------------------------------------
\* The lexical environment (environment::Environment).  A frame is the
\* sequence of its bindings in slot order; the chain is the global frame
\* (altitude 0, shared and mutable, carried in the compile state) followed
\* by the local frames `env`, innermost last.

Binding(name, initialized) == [name |-> name, initialized |-> initialized]
Variable(altitude, index, initialized) ==
  [altitude |-> altitude, index |-> index, initialized |-> initialized]

FrameNames(frame) == {frame[i].name : i \in 1 .. Len(frame)}
FrameIndex(frame, name) ==
  (CHOOSE i \in 1 .. Len(frame) : frame[i].name = name) - 1

\* Environment::define on one frame: a new slot unless the name is bound.
define(frame, name, initialized) ==
  IF name \in FrameNames(frame) THEN frame
  ELSE Append(frame, Binding(name, initialized))

\* The frame at an altitude of the chain.
FrameAt(global, env, altitude) ==
  IF altitude = 0 THEN global ELSE env[altitude]

\* Environment::get: the nearest enclosing binding of the name, or None.
get(global, env, name) ==
  LET binders == {a \in 0 .. Len(env) : name \in FrameNames(FrameAt(global, env, a))} IN
  IF binders = {} THEN None
  ELSE LET a == Max(binders)
           frame == FrameAt(global, env, a)
           i == FrameIndex(frame, name)
       IN [some |-> TRUE, v |-> Variable(a, i, frame[i + 1].initialized)]

\* Environment::depth: frame hops from the current frame to an altitude.
depth(env, altitude) == Len(env) - altitude

RECURSIVE DefineAll(_, _)
DefineAll(frame, names) ==
  IF names = <<>> THEN frame
  ELSE DefineAll(define(frame, Head(names), TRUE), Tail(names))

\* Environment::new_initial: a child frame binding the names in order.
new_initial(env, names) == Append(env, DefineAll(<<>>, names))

--------------------------------------------------------------------------
\* compile.rs.  A compile state carries what a call reads and writes through
\* its references: the output buffer `to`, the shared global frame `genv`,
\* and the call's result: ok/ret for Ok(count), ok/err for Err(message).
\* `log` records each call of compile in call order (pre-order): its form,
\* flags, initial_len, result, and `n`, the number of calls it made in all,
\* itself included.

State(buf, global) ==
  [to |-> buf, genv |-> global, log |-> <<>>, ok |-> TRUE, ret |-> 0, err |-> ""]

Push(s, instr) == [s EXCEPT !.to = Append(@, instr)]
Err(s, msg) == [s EXCEPT !.ok = FALSE, !.err = msg]

\* format!("Undefined value {}.", name)
UndefinedValue(name) == "Undefined value " \o name \o "."
NonToplevelDefine == "Non-top-level defines not yet supported."

CallRecord(tree, tail, toplevel, initial_len) ==
  [form |-> tree.type, tail |-> tail, toplevel |-> toplevel,
   start |-> initial_len, ret |-> 0, ok |-> FALSE, n |-> 0]

\* Entering compile: let initial_len = to.len().
Enter(s, tree, tail, toplevel) ==
  [s EXCEPT !.log = Append(@, CallRecord(tree, tail, toplevel, Len(s.to)))]

\* Ok(to.len() - initial_len)
ReturnCount(buf, initial_len) == Len(buf) - initial_len

\* Leaving compile: Ok(to.len() - initial_len), or the error passed up by `?`.
Leave(r, k, initial_len) ==
  LET count == IF r.ok THEN ReturnCount(r.to, initial_len) ELSE 0 IN
  [r EXCEPT !.ret = count,
            !.log[k] = [@ EXCEPT !.ret = count, !.ok = r.ok, !.n = Len(r.log) - k + 1]]

\* Variant: the checked and unchecked instructions exchanged.
make_get_instruction_swapped(env, variable) ==
  LET d == depth(env, variable.altitude)
      index == variable.index
  IN CASE variable.altitude = 0 /\ variable.initialized -> CheckedGlobalArgumentGet(index)
       [] variable.altitude = 0 /\ ~variable.initialized -> GlobalArgumentGet(index)
       [] variable.altitude # 0 /\ variable.initialized -> CheckedLocalArgumentGet(d, index)
       [] OTHER -> LocalArgumentGet(d, index)

make_get_instruction(env, variable) ==
  LET d == depth(env, variable.altitude)
      index == variable.index
  IN CASE variable.altitude = 0 /\ variable.initialized -> GlobalArgumentGet(index)
       [] variable.altitude = 0 /\ ~variable.initialized -> CheckedGlobalArgumentGet(index)
       [] variable.altitude # 0 /\ variable.initialized -> LocalArgumentGet(d, index)
       [] OTHER -> CheckedLocalArgumentGet(d, index)

make_set_instruction(env, variable) ==
  LET d == depth(env, variable.altitude)
      index == variable.index
  IN IF variable.altitude = 0 THEN GlobalArgumentSet(index)
     ELSE DeepArgumentSet(d, index)

\* Variant: a conditional jump one instruction short.
JumpFalseOffset_short(true_end, conditional_jump_idx) ==
  true_end - conditional_jump_idx - 2

\* If: the offset of the conditional jump over the then-branch.
JumpFalseOffset(true_end, conditional_jump_idx) ==
  true_end - conditional_jump_idx - 1

\* If: the offset of the jump over the else-branch.
JumpOffset(len, true_end) == len - true_end

\* Variant: a skip jump landing on the Return instead of after it.
SkipOffset_short(len, skip_pos) == len - skip_pos - 2

\* Lambda: the offset of the jump over the function's code.
SkipOffset(len, skip_pos) == len - skip_pos - 1

\* Variant: the environment preserved and restored around every call.
InvokeAlwaysPreserving(buf, nargs, tail) ==
  buf \o <<CreateFrame(nargs), PopFunction, PreserveEnv, FunctionInvoke(tail), RestoreEnv>>

\* Application, after the function and the arguments: the frame and the call.
Invoke(buf, nargs, tail) ==
  buf \o <<CreateFrame(nargs), PopFunction>>
      \o (IF ~tail THEN <<PreserveEnv>> ELSE <<>>)
      \o <<FunctionInvoke(tail)>>
      \o (IF ~tail THEN <<RestoreEnv>> ELSE <<>>)

\* Lambda, before the body: the closure, the skip placeholder and the prologue.
Prologue(buf, arity, dotted) ==
  buf \o <<CreateClosure(1), NoOp, CheckArity(arity, dotted)>>
      \o (IF dotted THEN <<PackFrame(arity)>> ELSE <<>>)
      \o <<ExtendEnv>>

\* The tail flag compile_sequence passes to its i-th of n expressions.
SequenceTail(i, n, tail) == IF i < n THEN FALSE ELSE tail

\* Variant: the body inherits the tail flag the Lambda was compiled with.
LambdaBodyTail_inherited(tail) == tail

\* The tail flag Lambda passes to compile_sequence for its body: true.
LambdaBodyTail(tail) == TRUE

RECURSIVE compile(_, _, _, _, _)
RECURSIVE compile_from(_, _, _, _, _)
RECURSIVE compile_args(_, _, _, _)

\* compile_sequence: the expressions from the i-th on, in order; the first
\* failing one ends the sequence.
compile_from(expressions, i, s, env, tail) ==
  LET r == compile(expressions[i], s, env,
                   SequenceTail(i, Len(expressions), tail), FALSE) IN
  IF ~r.ok \/ i = Len(expressions) THEN r
  ELSE compile_from(expressions, i + 1, r, env, tail)

compile_sequence(expressions, s, env, tail) ==
  compile_from(expressions, 1, s, env, tail)

\* Application's loop over the arguments: compile each one, then PushValue.
compile_args(args, i, s, env) ==
  IF i > Len(args) THEN s
  ELSE LET r == compile(args[i], s, env, FALSE, FALSE) IN
       IF ~r.ok THEN r ELSE compile_args(args, i + 1, Push(r, PushValue), env)

compile_Quote(q, s) == Push(s, Constant(q.quoted))

compile_If(i, s, env, tail) ==
  LET c == compile(i.cond, s, env, FALSE, FALSE) IN
  IF ~c.ok THEN c ELSE
  LET conditional_jump_idx == Len(c.to)
      t == compile(i.t, Push(c, NoOp), env, tail, FALSE)
  IN
  IF ~t.ok THEN t ELSE
  IF i.f # NoElse
    THEN LET true_end == Len(t.to) + 1
             f == compile(i.f, Push(t, NoOp), env, tail, FALSE)
         IN IF ~f.ok THEN f ELSE
            [f EXCEPT !.to =
               SetAt(SetAt(@, true_end - 1, Jump(JumpOffset(Len(f.to), true_end))),
                     conditional_jump_idx,
                     JumpFalse(JumpFalseOffset(true_end, conditional_jump_idx)))]
    ELSE [t EXCEPT !.to =
            SetAt(@, conditional_jump_idx,
                  JumpFalse(JumpFalseOffset(Len(t.to), conditional_jump_idx)))]

compile_Begin(b, s, env, tail) == compile_sequence(b.expressions, s, env, tail)

\* Variant: the value compiled before the variable is looked up.
compile_Set_value_first(st, s, env) ==
  LET r == compile(st.value, s, env, FALSE, FALSE) IN
  IF ~r.ok THEN r ELSE
  LET found == get(r.genv, env, st.variable) IN
  IF found.some
    THEN Push(r, make_set_instruction(env, found.v))
    ELSE Err(r, UndefinedValue(st.variable))

\* Set.  Only Some(EnvironmentValue::Variable(v)) is modelled as found; the
\* source takes the else arm for None and for a macro alike.
compile_Set(st, s, env) ==
  LET found == get(s.genv, env, st.variable) IN
  IF found.some
    THEN LET r == compile(st.value, s, env, FALSE, FALSE) IN
         IF ~r.ok THEN r ELSE Push(r, make_set_instruction(env, found.v))
    ELSE Err(s, UndefinedValue(st.variable))

compile_Reference(r, s, env) ==
  LET found == get(s.genv, env, r.variable) IN
  IF found.some
    THEN Push(s, make_get_instruction(env, found.v))
    ELSE Err(s, UndefinedValue(r.variable))

compile_Lambda(l, s, env, tail) ==
  LET arity == Len(l.formals.values)
      dotted == l.formals.rest # NoRest
      skip_pos == Len(s.to) + 1
      formal_name_refs ==
        l.formals.values \o (IF dotted THEN <<l.formals.rest>> ELSE <<>>)
      lambda_env == new_initial(env, formal_name_refs)
      b == compile_sequence(l.expressions,
                            [s EXCEPT !.to = Prologue(@, arity, dotted)],
                            lambda_env, LambdaBodyTail(tail))
  IN IF ~b.ok THEN b ELSE
     LET returned == Append(b.to, Return) IN
     [b EXCEPT !.to =
        SetAt(returned, skip_pos, Jump(SkipOffset(Len(returned), skip_pos)))]

\* env.borrow_mut().define(name, true) on the frame the call was given.
\* toplevel is true in a root call only (every nested call passes false),
\* and a root call is given the global frame.
DefineHere(s, env, name) ==
  [s EXCEPT !.genv = define(@, name, TRUE)]

\* Variant: Define accepted whatever the toplevel flag.
compile_Define_anywhere(d, s, env, toplevel) ==
  LET ptr == get(s.genv, env, d.variable) IN
  IF ptr.some
    THEN LET r == compile(d.value, s, env, FALSE, FALSE) IN
         IF ~r.ok THEN r ELSE Push(r, make_set_instruction(env, ptr.v))
    ELSE LET r == compile(d.value, DefineHere(s, env, d.variable), env, FALSE, FALSE) IN
         IF ~r.ok THEN r ELSE Push(r, ExtendFrame)

\* Variant: Define always registers and extends, bound name or not.
compile_Define_fresh(d, s, env, toplevel) ==
  IF toplevel
    THEN LET r == compile(d.value, DefineHere(s, env, d.variable), env, FALSE, FALSE) IN
         IF ~r.ok THEN r ELSE Push(r, ExtendFrame)
    ELSE Err(s, NonToplevelDefine)

\* Variant: the binding of a new name is dropped when its value fails.
compile_Define_rollback(d, s, env, toplevel) ==
  IF toplevel
    THEN LET ptr == get(s.genv, env, d.variable) IN
         IF ptr.some
           THEN LET r == compile(d.value, s, env, FALSE, FALSE) IN
                IF ~r.ok THEN r ELSE Push(r, make_set_instruction(env, ptr.v))
           ELSE LET r == compile(d.value, DefineHere(s, env, d.variable), env, FALSE, FALSE) IN
                IF ~r.ok THEN [r EXCEPT !.genv = s.genv] ELSE Push(r, ExtendFrame)
    ELSE Err(s, NonToplevelDefine)

\* Define: the binding is registered before the value is compiled and is
\* kept when the value fails.
compile_Define(d, s, env, toplevel) ==
  IF toplevel
    THEN LET ptr == get(s.genv, env, d.variable) IN
         IF ptr.some
           THEN LET r == compile(d.value, s, env, FALSE, FALSE) IN
                IF ~r.ok THEN r ELSE Push(r, make_set_instruction(env, ptr.v))
           ELSE LET r == compile(d.value, DefineHere(s, env, d.variable), env, FALSE, FALSE) IN
                IF ~r.ok THEN r ELSE Push(r, ExtendFrame)
    ELSE Err(s, NonToplevelDefine)

compile_Application(a, s, env, tail) ==
  LET f == compile(a.function, s, env, FALSE, FALSE) IN
  IF ~f.ok THEN f ELSE
  LET r == compile_args(a.args, 1, Push(f, PushValue), env) IN
  IF ~r.ok THEN r ELSE [r EXCEPT !.to = Invoke(@, Len(a.args), tail)]

\* compile(tree, to, env, tail, toplevel); the caller never passes
\* tail && toplevel, on which the source panics.
compile(tree, s, env, tail, toplevel) ==
  LET initial_len == Len(s.to)
      k == Len(s.log) + 1
      e == Enter(s, tree, tail, toplevel)
      r == CASE tree.type = "Quote" -> compile_Quote(tree, e)
             [] tree.type = "If" -> compile_If(tree, e, env, tail)
             [] tree.type = "Begin" -> compile_Begin(tree, e, env, tail)
             [] tree.type = "Set" -> compile_Set(tree, e, env)
             [] tree.type = "Reference" -> compile_Reference(tree, e, env)
             [] tree.type = "Lambda" -> compile_Lambda(tree, e, env, tail)
             [] tree.type = "Define" -> compile_Define(tree, e, env, toplevel)
             [] tree.type = "Application" -> compile_Application(tree, e, env, tail)
  IN Leave(r, k, initial_len)


--------------------------------------------------------------------------
\* The trees handed to compile.  x and y are global names, a, b and r
\* formal parameters; handle 0 is an interned constant.

Q == Quote(0)
Rx == Reference("x")
Ry == Reference("y")
Ra == Reference("a")
CallX == Application(Rx, <<>>)
CallQ == Application(Q, <<Q>>)
CallA == Application(Ra, <<Reference("r"), CallQ>>)

Trees ==
  { Q, Rx, Ry, CallX, CallQ,
    Application(CallQ, <<CallQ, Q>>),
    If(Q, CallQ, NoElse),
    If(Q, CallQ, Application(Q, <<>>)),
    If(If(Q, Q, Q), If(Q, CallQ, NoElse), If(Q, Q, CallQ)),
    If(Q, Q, Rx),
    Begin(<<CallQ, Q, CallQ>>),
    Begin(<<Define("x", Q), Rx>>),
    Begin(<<Begin(<<CallQ, CallQ>>), If(Q, CallQ, Q)>>),
    SetBang("x", Q),
    SetBang("y", CallQ),
    Lambda(<<>>, NoRest, <<CallQ, CallQ>>),
    Lambda(<<>>, NoRest, <<CallX, Q>>),
    Lambda(<<"a">>, "r", <<CallA, If(Ra, CallA, CallQ)>>),
    Lambda(<<"a", "x">>, NoRest,
           <<Lambda(<<"b">>, NoRest, <<SetBang("a", Reference("b")), Rx, SetBang("y", Ra)>>)>>),
    Lambda(<<"a">>, NoRest, <<Define("a", Q)>>),
    Lambda(<<>>, NoRest, <<Begin(<<CallQ, CallQ>>), Begin(<<CallQ, CallQ>>)>>),
    If(Q, Lambda(<<>>, NoRest, <<If(Q, CallQ, NoElse)>>), Lambda(<<"a">>, NoRest, <<Q, Ra>>)),
    Define("x", Q),
    Define("y", Q),
    Define("x", Ry),
    Define("x", CallQ),
    Define("y", Lambda(<<"a">>, NoRest, <<Application(Ry, <<Ra>>)>>)),
    Define("x", Define("y", Q)) }

\* The top-level forms of a session.
TopLevelForms ==
  { Rx, Ry,
    Define("x", Q),
    Define("y", Q),
    Define("x", Ry),
    Define("y", CallX),
    Define("x", Lambda(<<"a">>, NoRest, <<Application(Rx, <<Ra, Ry>>)>>)),
    SetBang("x", Rx),
    Begin(<<Define("x", Q), Rx>>),
    Begin(<<Define("y", CallQ), Ry>>) }

\* What a caller compiles: any tree, in any combination of the
\* flags but tail && toplevel.
Flags == {f \in [tail : BOOLEAN, toplevel : BOOLEAN] : ~(f.tail /\ f.toplevel)}

--------------------------------------------------------------------------
\* The state machine: an arena that is interned into and vacated, and a
\* session of compile calls on one output buffer and one global environment.

NoArenaOp == [op |-> "none", v |-> "", at |-> 0]

Init ==
  /\ values = <<>>
  /\ prev_values = <<>>
  /\ arena_op = NoArenaOp
  /\ to = <<>>
  /\ genv = <<>>
  /\ before = <<>>
  /\ units = <<>>
  /\ log = <<>>

\* arena.intern(v)
Intern(v) ==
  /\ Len(values) < MaxSlots \/ AbsentIndices(values) # {}
  /\ LET r == intern(values, v) IN
       /\ values' = r.values
       /\ arena_op' = [op |-> "intern", v |-> v, at |-> r.ret]
  /\ prev_values' = values
  /\ UNCHANGED compiler_vars

\* arena.values[i] = ArenaValue::Absent
Vacate(i) ==
  /\ values[i + 1] # Absent
  /\ values' = [values EXCEPT ![i + 1] = Absent]
  /\ arena_op' = [op |-> "vacate", v |-> "", at |-> i]
  /\ prev_values' = values
  /\ UNCHANGED compiler_vars

\* compile(&tree, &mut to, env, tail, toplevel) with the global environment
CompileCall(tree, tail, toplevel) ==
  /\ LET r == compile(tree, State(to, genv), <<>>, tail, toplevel) IN
       /\ to' = r.to
       /\ genv' = r.genv
       /\ log' = r.log
       /\ units' = Append(units,
            [tree |-> tree, tail |-> tail, toplevel |-> toplevel,
             start |-> Len(to), genv |-> genv,
             ok |-> r.ok, ret |-> r.ret, err |-> r.err])
  /\ before' = to
  /\ UNCHANGED arena_vars

\* A caller compiling any tree with any flags.
Compile(tree, tail, toplevel) ==
  /\ Len(units) < MaxUnits
  /\ Len(to) <= MaxBuf
  /\ CompileCall(tree, tail, toplevel)

\* A read-eval-print session compiling one top-level form after the other.
CompileToplevel(tree) ==
  /\ Len(units) < MaxSession
  /\ CompileCall(tree, FALSE, TRUE)

ArenaNext ==
  \/ \E v \in Values : Intern(v)
  \/ \E i \in 0 .. Len(values) - 1 : Vacate(i)

CompilerNext ==
  \E tree \in Trees, f \in Flags : Compile(tree, f.tail, f.toplevel)

SessionNext ==
  \E tree \in TopLevelForms : CompileToplevel(tree)

Next == ArenaNext \/ CompilerNext \/ SessionNext

\* Compile calls on any tree with any flags.
Spec == Init /\ [][CompilerNext]_vars

\* Sessions of top-level forms on one persistent global environment.
SessionSpec == Init /\ [][SessionNext]_vars

\* The arena's histories.
ArenaSpec == Init /\ [][ArenaNext]_vars

--------------------------------------------------------------------------
\* Reading the state.

LastUnit == units[Len(units)]

\* The global frame and the buffer length right after the i-th call.
GenvAfter(i) == IF i < Len(units) THEN units[i + 1].genv ELSE genv
EndOf(i) == IF i < Len(units) THEN units[i + 1].start ELSE Len(to)

Bound(global, name) == get(global, <<>>, name).some
IndexOf(global, name) == get(global, <<>>, name).v.index

\* The buffer positions p of [from, upto) holding an instruction with this op.
Positions(op, from, upto) == {p \in from .. upto - 1 : At(to, p).op = op}

\* The calls a logged call made itself, in order (indices into log).
RECURSIVE KidsFrom(_, _)
KidsFrom(j, last) ==
  IF j > last THEN <<>> ELSE <<j>> \o KidsFrom(j + log[j].n, last)
Kids(k) == KidsFrom(k + 1, k + log[k].n - 1)

Calls(form) == {k \in 1 .. Len(log) : log[k].form = form /\ log[k].ok}

\* One past the last instruction a logged call appended.
End(c) == c.start + c.ret

--------------------------------------------------------------------------
\* C1: after intern(v), in any arena reached by interning and vacating, the
\* returned index is the lowest Absent index of the arena before the call,
\* or its slot count if it had no Absent slot, in which case the arena grew
\* by exactly one slot; value_ref at the returned index yields v and every
\* other slot is as before.
C1_InternFirstFit ==
  arena_op.op = "intern" =>
    LET absent == AbsentIndices(prev_values)
        at == arena_op.at
    IN /\ \/ absent # {} /\ at \in absent /\ (\A i \in absent : at <= i)
             /\ Len(values) = Len(prev_values)
          \/ absent = {} /\ at = Len(prev_values)
             /\ Len(values) = Len(prev_values) + 1
       /\ value_ref(values, at) = arena_op.v
       /\ \A i \in 0 .. Len(prev_values) - 1 :
            i # at => At(values, i) = At(prev_values, i)

\* An intern that had two Absent slots to choose from, none of them slot 0.
C1_Witness ==
  /\ arena_op.op = "intern"
  /\ Cardinality(AbsentIndices(prev_values)) >= 2
  /\ arena_op.at > 0
  /\ arena_op.at < Len(prev_values) - 1

\* The shape of the end of a compiled Application.
TailCallShape(c) ==
  /\ At(to, End(c) - 1) = FunctionInvoke(TRUE)
  /\ At(to, End(c) - 2) # PreserveEnv
  /\ End(c) < Len(to) => At(to, End(c)) # RestoreEnv

CallShape(c) ==
  /\ At(to, End(c) - 3) = PreserveEnv
  /\ At(to, End(c) - 2) = FunctionInvoke(FALSE)
  /\ At(to, End(c) - 1) = RestoreEnv
  /\ At(to, End(c) - 4) # PreserveEnv
  /\ End(c) < Len(to) => At(to, End(c)) # RestoreEnv

\* C2: every Application that compiled with tail=true ends with its
\* FunctionInvoke, tagged tail=true, with no PreserveEnv right before it and
\* no RestoreEnv right after it; every Application that compiled with
\* tail=false ends with PreserveEnv, FunctionInvoke tagged tail=false,
\* RestoreEnv, exactly one of each.
C2_TailCallInstructionShape ==
  \A k \in Calls("Application") :
    IF log[k].tail THEN TailCallShape(log[k]) ELSE CallShape(log[k])

\* A compile call that compiled an Application in tail position and another
\* one out of it, in an environment binding the function's name.
C2_Witness ==
  /\ \E k \in Calls("Application") : log[k].tail /\ log[Kids(k)[1]].form = "Reference"
  /\ \E k \in Calls("Application") : ~log[k].tail /\ Len(Kids(k)) = 3

\* C3: in every If that compiled, the placeholder right after the condition
\* holds JumpFalse(n), n the count returned for the then-branch, plus one
\* when there is an else-branch; and then the instruction right after the
\* then-branch is Jump(m), m the count returned for the else-branch.
C3_IfJumpOffsets ==
  \A k \in Calls("If") :
    LET kids == Kids(k)
        cond == log[kids[1]]
        then == log[kids[2]]
    IN /\ Len(kids) \in {2, 3}
       /\ then.start = End(cond) + 1
       /\ IF Len(kids) = 2
            THEN At(to, End(cond)) = JumpFalse(then.ret)
            ELSE /\ At(to, End(cond)) = JumpFalse(then.ret + 1)
                 /\ At(to, End(then)) = Jump(log[kids[3]].ret)
                 /\ log[kids[3]].start = End(then) + 1

\* An If with an else-branch whose branches are Ifs, one with and one
\* without an else-branch, compiled after a first call filled the buffer.
C3_Witness ==
  /\ before # <<>>
  /\ \E k \in Calls("If") :
       /\ Len(Kids(k)) = 3
       /\ \A i \in 1 .. 3 : log[Kids(k)[i]].form = "If"
       /\ Len(Kids(Kids(k)[2])) = 2
       /\ Len(Kids(Kids(k)[3])) = 3


\* The units before the i-th that are a Define of the name.
DefinesBefore(i, name) ==
  {j \in 1 .. i - 1 : units[j].tree.type = "Define" /\ units[j].tree.variable = name}

\* The units that are a top-level Reference.
ReferenceUnits ==
  {i \in 1 .. Len(units) : units[i].tree.type = "Reference" /\ units[i].toplevel}

\* C4 as stated: a top-level Reference(f) compiled before any Define(f)
\* succeeds and emits the checked global get; compiled after a Define(f),
\* it emits the unchecked global get for f.
C4_ForwardReferenceChecked ==
  \A i \in ReferenceUnits :
    LET u == units[i] IN
    IF DefinesBefore(i, u.tree.variable) = {}
      THEN /\ u.ok
           /\ u.ret = 1
           /\ At(to, u.start).op = "CheckedGlobalArgumentGet"
      ELSE /\ u.ok
           /\ At(to, u.start) = GlobalArgumentGet(IndexOf(u.genv, u.tree.variable))

\* C4, amended: a top-level Reference(f) compiled before any Define(f) fails
\* with "Undefined value f." and appends nothing; compiled after a
\* Define(f), it succeeds and emits exactly the unchecked global get for the
\* slot of f.
C4_ReferenceBeforeAndAfterDefine ==
  \A i \in ReferenceUnits :
    LET u == units[i] IN
    IF DefinesBefore(i, u.tree.variable) = {}
      THEN /\ ~u.ok
           /\ u.err = UndefinedValue(u.tree.variable)
           /\ EndOf(i) = u.start
      ELSE /\ u.ok
           /\ u.ret = 1
           /\ EndOf(i) = u.start + 1
           /\ At(to, u.start) = GlobalArgumentGet(IndexOf(u.genv, u.tree.variable))

\* Reference(f), a Define(f, e) that compiles, Reference(f) in one session.
C4_Witness ==
  \E i, j \in ReferenceUnits :
    /\ units[i].tree = units[j].tree
    /\ ~units[i].ok
    /\ units[j].ok
    /\ \E d \in DefinesBefore(j, units[j].tree.variable) : d > i /\ units[d].ok

\* The consecutive units that compile the same top-level Define of a name
\* unbound before the first of them.
Redefinitions ==
  {i \in 1 .. Len(units) - 1 :
     /\ units[i].tree.type = "Define"
     /\ units[i + 1].tree = units[i].tree
     /\ units[i].toplevel /\ units[i + 1].toplevel
     /\ ~Bound(units[i].genv, units[i].tree.variable)}

Slots(global, name) == {j \in 1 .. Len(global) : global[j].name = name}

\* C5: compiling a top-level Define(x, e) twice in a row, x unbound before,
\* leaves exactly one global slot for x; when e compiles, the first call
\* registers x in a new slot and ends with ExtendFrame, the second adds no
\* binding, emits no ExtendFrame and ends with the GlobalArgumentSet of the
\* slot the first call gave x.
C5_DefineTwiceOneSlot ==
  \A i \in Redefinitions :
    LET first == units[i]
        second == units[i + 1]
        x == first.tree.variable
    IN /\ Cardinality(Slots(GenvAfter(i + 1), x)) = 1
       /\ first.ok =>
            /\ second.ok
            /\ second.genv = Append(first.genv, Binding(x, TRUE))
            /\ At(to, second.start - 1) = ExtendFrame
            /\ GenvAfter(i + 1) = second.genv
            /\ Positions("ExtendFrame", second.start, EndOf(i + 1)) = {}
            /\ At(to, EndOf(i + 1) - 1) = GlobalArgumentSet(Len(first.genv))

\* A Define compiled twice with success, its name in slot 1.
C5_Witness ==
  \E i \in Redefinitions :
    /\ units[i].ok
    /\ Len(units[i].genv) = 1
    /\ units[i].tree.value # Q

\* C6: a call whose root is a Set of a name bound in no frame, or a Define
\* compiled with toplevel=false, returns an error and leaves the output
\* buffer exactly as it was.
C6_RejectedRootAppendsNothing ==
  units # <<>> =>
    LET u == LastUnit IN
    /\ (u.tree.type = "Set" /\ ~Bound(u.genv, u.tree.variable)) =>
         ~u.ok /\ u.err = UndefinedValue(u.tree.variable) /\ to = before
    /\ (u.tree.type = "Define" /\ ~u.toplevel) =>
         ~u.ok /\ u.err = NonToplevelDefine /\ to = before

\* A rejected Set of an unbound name whose value is an Application, after a
\* call that filled the buffer.
C6_Witness ==
  /\ units # <<>>
  /\ before # <<>>
  /\ LastUnit.tree.type = "Set"
  /\ LastUnit.tree.value.type = "Application"
  /\ ~Bound(LastUnit.genv, LastUnit.tree.variable)

\* C7: for every Lambda that compiled, whatever tail flag it was compiled
\* with, every body expression but the last was compiled with tail=false
\* and the last with tail=true, the Applications among them having the
\* matching call shape; and a root Lambda emits the same code when compiled
\* with the other tail flag.
C7_LambdaBodyTailPosition ==
  /\ \A k \in Calls("Lambda") :
       LET kids == Kids(k) IN
       \A i \in 1 .. Len(kids) :
         LET c == log[kids[i]] IN
         /\ c.tail = (i = Len(kids))
         /\ c.form = "Application" =>
              IF i = Len(kids) THEN TailCallShape(c) ELSE CallShape(c)
  /\ (units # <<>> /\ LastUnit.tree.type = "Lambda" /\ LastUnit.ok /\ ~LastUnit.toplevel) =>
       compile(LastUnit.tree, State(before, LastUnit.genv), <<>>, ~LastUnit.tail, FALSE).to = to

\* A root Lambda compiled with tail=false whose body is two Applications.
C7_Witness ==
  /\ units # <<>>
  /\ LastUnit.tree.type = "Lambda" /\ LastUnit.ok /\ ~LastUnit.tail
  /\ Len(Kids(1)) = 2
  /\ \A i \in 1 .. 2 : log[Kids(1)[i]].form = "Application"

\* The units whose tree is Begin(Define(x, e), Reference(x)) with x unbound.
DefineThenReferenceUnits ==
  {i \in 1 .. Len(units) :
     LET t == units[i].tree IN
     /\ t.type = "Begin" /\ units[i].toplevel
     /\ Len(t.expressions) = 2
     /\ t.expressions[1].type = "Define"
     /\ t.expressions[2] = Reference(t.expressions[1].variable)
     /\ ~Bound(units[i].genv, t.expressions[1].variable)}

\* C8 as stated: Begin(Define(x, e), Reference(x)) compiled at top level
\* with x unbound succeeds, registers x in the global frame, and the
\* Reference resolves to the new slot.
C8_DefineInsideBeginVisible ==
  \A i \in DefineThenReferenceUnits :
    LET x == units[i].tree.expressions[1].variable IN
    /\ units[i].ok
    /\ Bound(GenvAfter(i), x)
    /\ At(to, EndOf(i) - 1).op \in {"GlobalArgumentGet", "CheckedGlobalArgumentGet"}

\* C8, amended: Begin(Define(x, e), Reference(x)) compiled at top level with
\* x unbound fails with "Non-top-level defines not yet supported.",
\* registers nothing and appends nothing.
C8_DefineInsideBeginRejected ==
  \A i \in DefineThenReferenceUnits :
    /\ ~units[i].ok
    /\ units[i].err = NonToplevelDefine
    /\ GenvAfter(i) = units[i].genv
    /\ EndOf(i) = units[i].start

\* Such a unit compiled after a Define of the other name filled the buffer.
C8_Witness ==
  \E i \in DefineThenReferenceUnits :
    /\ units[i].genv # <<>>
    /\ units[i].start > 0
    /\ units[i].tree.expressions[1].value # Q

\* The top-level Defines of an unbound name that failed.
FailedDefines ==
  {i \in 1 .. Len(units) :
     /\ units[i].tree.type = "Define" /\ units[i].toplevel
     /\ ~Bound(units[i].genv, units[i].tree.variable)
     /\ ~units[i].ok}

\* The units whose call appended an ExtendFrame.
ExtendingUnits ==
  {j \in 1 .. Len(units) : Positions("ExtendFrame", units[j].start, EndOf(j)) # {}}

\* C9: after a top-level Define(x, e) of an unbound x failed in e, x stays
\* bound though the call emitted no ExtendFrame: the global frame holds more
\* bindings than ExtendFrames were emitted, and a later top-level
\* Reference(x) compiles to the global get of x's slot, a slot for which no
\* unit emitted an ExtendFrame.
C9_FailedDefineLeavesBinding ==
  \A i \in FailedDefines :
    LET x == units[i].tree.variable IN
    /\ Bound(GenvAfter(i), x) /\ Bound(genv, x)
    /\ IndexOf(genv, x) = Len(units[i].genv)
    /\ i \notin ExtendingUnits
    /\ Len(GenvAfter(i)) > Cardinality(Positions("ExtendFrame", 0, EndOf(i)))
    /\ Len(genv) > Cardinality(Positions("ExtendFrame", 0, Len(to)))
    /\ \A j \in ReferenceUnits :
         (j > i /\ units[j].tree.variable = x) =>
           /\ units[j].ok
           /\ At(to, units[j].start) = GlobalArgumentGet(IndexOf(genv, x))
           /\ \A k \in ExtendingUnits : units[k].tree.variable # x

\* Define(x, y) failing on the unbound y, then a Define that extends the
\* frame, then Reference(x).
C9_Witness ==
  \E i \in FailedDefines :
    /\ ExtendingUnits # {}
    /\ \E j \in ReferenceUnits : j > i /\ units[j].tree.variable = units[i].tree.variable

\* C10: after a compile call that succeeded, nested or not, the instructions
\* it appended hold no NoOp, every Jump or JumpFalse among them lands within
\* them or right after them, and a Lambda's skip Jump lands right after the
\* Lambda's Return; the call left the instructions before it unchanged and
\* returned the number of instructions it appended.
C10_PatchedJumpsStayInRange ==
  /\ \A k \in 1 .. Len(log) :
       LET c == log[k] IN
       c.ok =>
         /\ Positions("NoOp", c.start, End(c)) = {}
         /\ End(c) <= Len(to)
         /\ \A p \in Positions("Jump", c.start, End(c))
                  \cup Positions("JumpFalse", c.start, End(c)) :
              At(to, p).n >= 0 /\ p + 1 + At(to, p).n <= End(c)
         /\ c.form = "Lambda" =>
              /\ At(to, c.start + 1).op = "Jump"
              /\ c.start + 1 + 1 + At(to, c.start + 1).n = End(c)
              /\ At(to, End(c) - 1) = Return
  /\ units # <<>> =>
       /\ Len(before) <= Len(to)
       /\ SubSeq(to, 1, Len(before)) = before
       /\ LastUnit.ok => LastUnit.ret = Len(to) - Len(before)

\* A successful call on a non-empty buffer that compiled two Lambdas inside
\* an If with an else-branch.
C10_Witness ==
  /\ units # <<>> /\ LastUnit.ok
  /\ before # <<>>
  /\ LastUnit.tree.type = "If"
  /\ Cardinality(Calls("Lambda")) = 2
  /\ Len(Kids(1)) = 3


====
